---------------------------- MODULE Spec2Model ----------------------------
(***************************************************************************)
(* A model of srclient's SchemaRegistryClient: the request dispatcher      *)
(* (httpRequest: credentials, the weighted semaphore, httpClient.Do), the  *)
(* two schema caches with their toggles, and the public operations that    *)
(* use them.  Each goroutine calling the client is a thread of the model;  *)
(* a thread moves through the blocking points of httpRequest:              *)
(*   "auth"     about to take credsLock.RLock and resolve the header       *)
(*   "token"    inside TokenProvider.ObtainToken, holding the read lock    *)
(*   "acquire"  blocked in sem.Acquire(context.Background(), 1)            *)
(*   "inflight" inside httpClient.Do, holding one unit of the semaphore    *)
(*   "store"    CreateSchema between GetSchema's return and its own store  *)
(*   "wlock"    a setter blocked in credsLock.Lock                         *)
(*   "done"     the public operation has returned; result holds its value  *)
(* The schema registry itself is the environment: a map from subjects to   *)
(* the ids of their versions, answering the requests the client sends.     *)
(***************************************************************************)
EXTENDS Integers, Sequences, FiniteSets, TLC

\* ------------------------------------------------------------------ bounds
NumThreads == 3        \* goroutines calling the client concurrently
MaxCap == 2            \* largest semaphoreWeight tried (capacities 1..MaxCap)
NumCredThreads == 2    \* goroutines used by the credentials specification
MaxVersions == 2       \* versions a subject can hold in the registry
MaxRLocks == 3         \* read locks on credsLock the model counts up to
MaxLen == 4             \* longest schema text of the normalisation runs

DefaultWeight == 16    \* CreateSchemaRegistryClient's semaphoreWeight

Threads == 1..NumThreads
CredThreads == 1..NumCredThreads
CacheThreads == {1}     \* the cache specification has one caller at a time
Ids == {1, 2}           \* schema ids known to the registry
Subjects == {"a", "b"}
CacheSubjects == {"a"}  \* the subject the cache specifications call with

\* ------------------------------------------------------------------- state
VARIABLES
    semSize,               \* sem: the weight given to semaphore.NewWeighted
    semHeld,               \* sem: units currently acquired
    credentials,           \* client.credentials (NoCredentials: the nil pointer)
    credsRLocks,           \* credsLock: read locks currently held
    cachingEnabled,
    cacheLatest,
    codecCreationEnabled,
    idSchemaCache,         \* map[int]*Schema
    subjectSchemaCache,    \* map[string]*Schema
    registry,              \* environment: subject -> ids of its versions 1..n
    pc,                    \* per thread: where it is
    call,                  \* per thread: the public operation and its arguments
    ctxCancelled,          \* per thread: the caller's context is cancelled
    request,               \* per thread: the request httpRequest was called with
    header,                \* per thread: Authorization header of the request built
    reqs,                  \* per thread: requests this operation sent to the backend
    postID,                \* per thread: CreateSchema's schemaResp.ID
    result,                \* per thread: what the operation returned
    lastSet,               \* history: form asked for by the latest set* call
    lastEffective,         \* history: form asked for by the latest set* call with usable arguments
    checked,               \* per thread, history: flags and cache content at the cache lookup
    hist                   \* history of the caches: what was fetched, reset, disabled

clientVars == <<semSize, semHeld, credentials, credsRLocks, cachingEnabled,
                cacheLatest, codecCreationEnabled, idSchemaCache,
                subjectSchemaCache>>
threadVars == <<pc, call, ctxCancelled, request, header, reqs, postID, result>>
historyVars == <<lastSet, lastEffective, checked, hist>>
vars == <<clientVars, registry, threadVars, historyVars>>

cacheVars == <<cachingEnabled, cacheLatest, codecCreationEnabled,
               idSchemaCache, subjectSchemaCache>>
credVars == <<credentials, credsRLocks, lastSet, lastEffective>>
semVars == <<semSize, semHeld>>
flagVars == <<cachingEnabled, cacheLatest, codecCreationEnabled>>
authVars == <<credentials, credsRLocks, lastSet, lastEffective>>

\* -------------------------------------------------------------- Go values
Nil == [nil |-> TRUE]                 \* a nil *Schema
NoCredentials == [nil |-> TRUE]       \* a nil *credentials
NoToken == "nil"                      \* a nil TokenProvider
EmptyMap == [k \in {} |-> Nil]        \* make(map[...]*Schema)

Lookup(m, k) == IF k \in DOMAIN m THEN m[k] ELSE Nil
Put(m, k, v) == [x \in (DOMAIN m) \cup {k} |-> IF x = k THEN v ELSE m[x]]

Usernames == {"", "u"}
Passwords == {"", "p"}
Providers == {NoToken, "tp"}

NoHeader == [form |-> "none"]
NoCall == [op |-> "none"]
NoError == [type |-> "nil", Code |-> 0, Message |-> ""]
NoValue == <<>>
NoResult == [ok |-> FALSE, err |-> "none", schema |-> Nil, value |-> NoValue,
             error |-> NoError]
Ok(s) == [ok |-> TRUE, err |-> "nil", schema |-> s, value |-> NoValue,
          error |-> NoError]
Err(e) == [ok |-> FALSE, err |-> e, schema |-> Nil, value |-> NoValue,
           error |-> NoError]
\* The return of an operation whose value is no *Schema: a list, a flag.
OkValue(v) == [ok |-> TRUE, err |-> "nil", schema |-> Nil, value |-> <<v>>,
               error |-> NoError]
NoCheck == [at |-> "none"]
NoSnapshot == [taken |-> FALSE]
\* The history kept of the caches.  `track` names the one part a behaviour
\* keeps up to date, the other parts staying empty:
\*   "first"   first: id -> the first result GetSchema(id) returned
\*   "latest"  latest: subjects a GetLatestSchema was answered for
\*   "reset"   staleIds, staleKeys: keys emptied by the last ResetCache
\*   "toggle"  atDisable: the two maps when caching was disabled;
\*             keptIds, keptKeys: keys that lasted through a disabled period;
\*             worked: an operation got its answer in that period
\*   "atomic"  atomic: what the latest ResetCache has assigned so far
\*             (cleared), whether it found entries in both maps (wiped), and
\*             what the caller's lookups since met: the id map after it was
\*             assigned (sawCleared), then the subject map after it was
\*             assigned too (sawBoth) or before it was, entries still in it
\*             (torn)
Tracks == {"first", "latest", "reset", "toggle", "atomic"}
NoReset ==
    [cleared |-> "none", wiped |-> FALSE, sawCleared |-> FALSE,
     sawBoth |-> FALSE, torn |-> FALSE]
NoHistory(track) ==
    [track |-> track, first |-> EmptyMap, latest |-> {}, staleIds |-> {},
     staleKeys |-> {}, atDisable |-> NoSnapshot, keptIds |-> {}, keptKeys |-> {},
     worked |-> FALSE, atomic |-> NoReset]

\* The request of src line 676, by the path constant it is formatted from.
Req(method, path, subject, arg, query, body) ==
    [method |-> method, path |-> path, subject |-> subject, arg |-> arg,
     query |-> query, body |-> body]

NoBody == [schema |-> <<>>, schemaType |-> ""]     \* a nil payload
NoRequest == Req("none", "none", "", "", "", NoBody)

\* ------------------------------------------------------------ credentials
\* SetCredentials that keeps a slot already filled.
CredentialsAfterSetCredentials_KeepFirst(username, password) ==
    IF Len(username) > 0 /\ Len(password) > 0 /\ credentials = NoCredentials
    THEN [username |-> username, password |-> password, bearerToken |-> NoToken]
    ELSE credentials

\* SetCredentials: the slot after the call.
CredentialsAfterSetCredentials(username, password) ==
    IF Len(username) > 0 /\ Len(password) > 0
    THEN [username |-> username, password |-> password, bearerToken |-> NoToken]
    ELSE credentials

\* SetBearerToken that adds the provider to the slot's username and password.
CredentialsAfterSetBearerToken_Merge(token) ==
    IF token /= NoToken
    THEN IF credentials = NoCredentials
         THEN [username |-> "", password |-> "", bearerToken |-> token]
         ELSE [credentials EXCEPT !.bearerToken = token]
    ELSE credentials

\* SetBearerToken: the slot after the call.
CredentialsAfterSetBearerToken(token) ==
    IF token /= NoToken
    THEN [username |-> "", password |-> "", bearerToken |-> token]
    ELSE credentials

\* httpRequest: the branch of the credentials block the request takes.
AuthBranch ==
    IF credentials = NoCredentials THEN "none"
    ELSE IF Len(credentials.username) > 0 /\ Len(credentials.password) > 0
         THEN "basic"
         ELSE IF credentials.bearerToken /= NoToken THEN "bearer" ELSE "none"

\* req.SetBasicAuth(username, password)
BasicHeader ==
    [form |-> "basic", username |-> credentials.username,
     password |-> credentials.password]

\* req.Header.Add("Authorization", "Bearer " + token), token from `provider`
BearerHeader(provider) == [form |-> "bearer", provider |-> provider]

\* What a set* call asks for, whatever its arguments.
AskedBasic(username, password) ==
    [form |-> "basic", username |-> username, password |-> password]
AskedBearer(token) == [form |-> "bearer", provider |-> token]
NothingAsked == [form |-> "none"]

\* A goroutine calls SetCredentials: it first has to take credsLock.Lock.
SetCredentials(t, username, password) ==
    /\ pc[t] = "idle"
    /\ pc' = [pc EXCEPT ![t] = "wlock"]
    /\ call' = [call EXCEPT ![t] = [op |-> "SetCredentials",
                                    username |-> username, password |-> password]]
    /\ UNCHANGED <<clientVars, registry, ctxCancelled, request, header, reqs,
                   postID, result, historyVars>>

\* A goroutine calls SetBearerToken: it first has to take credsLock.Lock.
SetBearerToken(t, token) ==
    /\ pc[t] = "idle"
    /\ pc' = [pc EXCEPT ![t] = "wlock"]
    /\ call' = [call EXCEPT ![t] = [op |-> "SetBearerToken", token |-> token]]
    /\ UNCHANGED <<clientVars, registry, ctxCancelled, request, header, reqs,
                   postID, result, historyVars>>

\* credsLock.Lock succeeds once no read lock is held; the setter's body runs
\* and the deferred Unlock releases the lock as the call returns.
SetterLocked(t) ==
    /\ pc[t] = "wlock"
    /\ credsRLocks = 0
    /\ \/ /\ call[t].op = "SetCredentials"
          /\ credentials' =
                CredentialsAfterSetCredentials(call[t].username, call[t].password)
          /\ lastSet' = AskedBasic(call[t].username, call[t].password)
          /\ lastEffective' =
                IF call[t].username /= "" /\ call[t].password /= ""
                THEN AskedBasic(call[t].username, call[t].password)
                ELSE lastEffective
       \/ /\ call[t].op = "SetBearerToken"
          /\ credentials' = CredentialsAfterSetBearerToken(call[t].token)
          /\ lastSet' = AskedBearer(call[t].token)
          /\ lastEffective' =
                IF call[t].token /= NoToken
                THEN AskedBearer(call[t].token)
                ELSE lastEffective
    /\ pc' = [pc EXCEPT ![t] = "idle"]
    /\ call' = [call EXCEPT ![t] = NoCall]
    /\ UNCHANGED <<semVars, credsRLocks, cacheVars, registry, ctxCancelled,
                   request, header, reqs, postID, result, checked, hist>>

\* ------------------------------------------------------------ httpRequest
\* A Lock call that is waiting keeps later RLock calls out (sync.RWMutex).
RLockFree == \A w \in Threads : pc[w] /= "wlock"

\* Lines 681-694 when no token is needed: RLock, basic auth or nothing, RUnlock.
ResolveAuth(t) ==
    /\ pc[t] = "auth"
    /\ RLockFree
    /\ AuthBranch /= "bearer"
    /\ header' = [header EXCEPT ![t] =
                     IF AuthBranch = "basic" THEN BasicHeader ELSE NoHeader]
    /\ pc' = [pc EXCEPT ![t] = "acquire"]
    /\ UNCHANGED <<clientVars, registry, call, ctxCancelled, request, reqs,
                   postID, result, lastSet, lastEffective, checked,
                   hist>>

\* Lines 681-686: RLock, then the call of bearerToken.ObtainToken(ctx).
ObtainToken(t) ==
    /\ pc[t] = "auth"
    /\ RLockFree
    /\ AuthBranch = "bearer"
    /\ credsRLocks < MaxRLocks
    /\ credsRLocks' = credsRLocks + 1
    /\ pc' = [pc EXCEPT ![t] = "token"]
    /\ UNCHANGED <<semVars, credentials, cacheVars, registry, call, ctxCancelled,
                   request, header, reqs, postID, result, historyVars>>

\* Lines 686-694: ObtainToken returned a token; the header is added and the
\* read lock released.
TokenOk(t) ==
    /\ pc[t] = "token"
    /\ header' = [header EXCEPT ![t] = BearerHeader(credentials.bearerToken)]
    /\ credsRLocks' = credsRLocks - 1
    /\ pc' = [pc EXCEPT ![t] = "acquire"]
    /\ UNCHANGED <<semVars, credentials, cacheVars, registry, call, ctxCancelled,
                   request, reqs, postID, result, lastSet, lastEffective, checked,
                   hist>>

\* An ObtainToken failure met by a request that has taken its unit already.
TokenFail_HoldsSlot(t) ==
    /\ pc[t] = "token"
    /\ pc' = [pc EXCEPT ![t] = "done"]
    /\ result' = [result EXCEPT ![t] = Err("token")]
    /\ semHeld' = semHeld + 1
    /\ UNCHANGED <<semSize, credentials, credsRLocks, cacheVars, registry, call,
                   ctxCancelled, request, header, reqs, postID, historyVars>>

\* Lines 686-689: ObtainToken failed; httpRequest returns the error from
\* inside the locked region, and no RUnlock runs.
TokenFail(t) ==
    /\ pc[t] = "token"
    /\ pc' = [pc EXCEPT ![t] = "done"]
    /\ result' = [result EXCEPT ![t] = Err("token")]
    /\ UNCHANGED <<clientVars, registry, call, ctxCancelled, request, header,
                   reqs, postID, historyVars>>

\* An Acquire that hands out one unit too many.
CanAcquire_OffByOne == semHeld <= semSize

\* sem.Acquire(context.Background(), 1): whether a unit can be handed out.
CanAcquire == semHeld < semSize

\* Lines 698-700: the unit is acquired, whatever the caller's context says,
\* and httpClient.Do is entered.  Do sends nothing on a cancelled context.
Acquire(t) ==
    /\ pc[t] = "acquire"
    /\ CanAcquire
    /\ semHeld' = semHeld + 1
    /\ pc' = [pc EXCEPT ![t] = "inflight"]
    /\ reqs' = [reqs EXCEPT ![t] =
                   IF ctxCancelled[t] THEN @ ELSE Append(@, request[t])]
    /\ UNCHANGED <<semSize, credentials, credsRLocks, cacheVars, registry, call,
                   ctxCancelled, request, header, postID, result, historyVars>>

\* A return path without the Release.
Released_Leak == semHeld

\* The units held after the deferred sem.Release(1) of line 699.
Released == semHeld - 1

\* The errors httpClient.Do and the status check can end a request with.
Failures(t) == IF ctxCancelled[t] THEN {"canceled"} ELSE {"transport", "status"}

\* Answers of the backend: a registry error with a JSON body, an answer of a
\* proxy whose body is no JSON, and an answer with an empty body.
Responses ==
    {[StatusCode |-> 422, Status |-> "422 Unprocessable Entity", json |-> TRUE,
      error_code |-> 42201, message |-> "Invalid schema"],
     [StatusCode |-> 502, Status |-> "502 Bad Gateway", json |-> FALSE,
      error_code |-> 0, message |-> ""],
     [StatusCode |-> 204, Status |-> "204 No Content", json |-> FALSE,
      error_code |-> 0, message |-> ""]}

\* Line 708: the status check of httpRequest.
StatusFails(resp) == resp.StatusCode < 200 \/ resp.StatusCode > 299

\* A createError that never decodes the body.
createError_StatusOnly(resp) ==
    [type |-> "errorString", Code |-> 0, Message |-> resp.Status]

\* createError: the body decoded into an Error, or the status line.
createError(resp) ==
    IF resp.json
    THEN [type |-> "Error", Code |-> resp.error_code, Message |-> resp.message]
    ELSE [type |-> "errorString", Code |-> 0, Message |-> resp.Status]

\* What httpRequest returns when the call fails: (nil, err).
FailureResults(t) ==
    {Err(e) : e \in Failures(t) \ {"status"}}
        \cup {[Err("status") EXCEPT !.error = createError(resp)] :
                 resp \in {r \in Responses :
                              "status" \in Failures(t) /\ StatusFails(r)}}

\* An httpRequest that sends a failed request again (up to three times).
HttpFail_Retry(t) ==
    /\ pc[t] = "inflight"
    /\ IF Len(reqs[t]) < 3
       THEN /\ pc' = [pc EXCEPT ![t] = "auth"]
            /\ UNCHANGED result
       ELSE /\ pc' = [pc EXCEPT ![t] = "done"]
            /\ \E r \in FailureResults(t) : result' = [result EXCEPT ![t] = r]
    /\ semHeld' = Released
    /\ UNCHANGED <<semSize, credentials, credsRLocks, cacheVars, registry, call,
                   ctxCancelled, request, header, reqs, postID, historyVars>>

\* Lines 700-710: Do fails, or the status is outside 200..299.  Every public
\* operation returns the error of httpRequest as it is.
HttpFail(t) ==
    /\ pc[t] = "inflight"
    /\ \E r \in FailureResults(t) : result' = [result EXCEPT ![t] = r]
    /\ semHeld' = Released
    /\ pc' = [pc EXCEPT ![t] = "done"]
    /\ UNCHANGED <<semSize, credentials, credsRLocks, cacheVars, registry, call,
                   ctxCancelled, request, header, reqs, postID, historyVars>>

\* The caller cancels the context it passed to the operation in progress.
Cancel(t) ==
    /\ pc[t] \in {"auth", "token", "acquire", "inflight"}
    /\ ~ctxCancelled[t]
    /\ ctxCancelled' = [ctxCancelled EXCEPT ![t] = TRUE]
    /\ UNCHANGED <<clientVars, registry, pc, call, request, header, reqs, postID,
                   result, historyVars>>

\* The caller has the operation's return values; the goroutine is free again.
Return(t) ==
    /\ pc[t] = "done"
    /\ pc' = [pc EXCEPT ![t] = "idle"]
    /\ call' = [call EXCEPT ![t] = NoCall]
    /\ ctxCancelled' = [ctxCancelled EXCEPT ![t] = FALSE]
    /\ request' = [request EXCEPT ![t] = NoRequest]
    /\ header' = [header EXCEPT ![t] = NoHeader]
    /\ reqs' = [reqs EXCEPT ![t] = <<>>]
    /\ postID' = [postID EXCEPT ![t] = 0]
    /\ result' = [result EXCEPT ![t] = NoResult]
    /\ checked' = [checked EXCEPT ![t] = NoCheck]
    /\ UNCHANGED <<clientVars, registry, lastSet, lastEffective, hist>>

\* An operation enters httpRequest(ctx, method, uri, payload).
Send(t, c, r) ==
    /\ pc' = [pc EXCEPT ![t] = "auth"]
    /\ call' = [call EXCEPT ![t] = c]
    /\ request' = [request EXCEPT ![t] = r]
    /\ header' = [header EXCEPT ![t] = NoHeader]

\* GetSubjects: GET /subjects.
GetSubjects(t) ==
    /\ pc[t] = "idle"
    /\ Send(t, [op |-> "GetSubjects"], Req("GET", "subjects", "", "", "", NoBody))
    /\ UNCHANGED <<clientVars, registry, ctxCancelled, reqs, postID, result,
                   historyVars>>

\* GetSubjects and GetSubjectsIncludingDeleted: the list is decoded and
\* returned.
GetSubjectsOk(t) ==
    /\ pc[t] = "inflight"
    /\ ~ctxCancelled[t]
    /\ call[t].op \in {"GetSubjects", "GetSubjectsIncludingDeleted"}
    /\ semHeld' = Released
    /\ result' = [result EXCEPT ![t] = Ok(Nil)]
    /\ pc' = [pc EXCEPT ![t] = "done"]
    /\ UNCHANGED <<semSize, credentials, credsRLocks, cacheVars, registry, call,
                   ctxCancelled, request, header, reqs, postID, historyVars>>

\* --------------------------------------------------------------- registry
SchemaTypes == {"AVRO", "JSON", "PROTOBUF"}

\* SchemaType.String(): Avro is left out of the request.
TypeString(schemaType) == IF schemaType = "AVRO" THEN "" ELSE schemaType

Digit(d) ==
    CASE d = 0 -> "0" [] d = 1 -> "1" [] d = 2 -> "2" [] d = 3 -> "3"
      [] d = 4 -> "4" [] d = 5 -> "5" [] d = 6 -> "6" [] d = 7 -> "7"
      [] d = 8 -> "8" [] d = 9 -> "9"

RECURSIVE ItoaNat(_)
ItoaNat(n) == IF n < 10 THEN Digit(n) ELSE ItoaNat(n \div 10) \o Digit(n % 10)

\* strconv.Itoa
Itoa(n) == IF n < 0 THEN "-" \o ItoaNat(-n) ELSE ItoaNat(n)

\* The registry's schemas: the type and the text of the schema with an id
\* (an id stands for one body and type, and never changes).
TypeOf(id) ==
    CASE id % 3 = 1 -> "AVRO" [] id % 3 = 2 -> "JSON" [] OTHER -> "PROTOBUF"
Text(id) == <<"{", Itoa(id), "}">>

Range(seq) == {seq[i] : i \in 1..Len(seq)}
VersionOf(subject, id) ==
    CHOOSE v \in 1..Len(registry[subject]) : registry[subject][v] = id

\* The version of `subject` a version token of the URI names; 0: none.
ResolveVersion(subject, token) ==
    IF token = "latest" THEN Len(registry[subject])
    ELSE IF \E v \in 1..Len(registry[subject]) : Itoa(v) = token
         THEN CHOOSE v \in 1..Len(registry[subject]) : Itoa(v) = token
         ELSE 0

\* The body of a 2xx answer, as json.Unmarshal leaves it in a schemaResponse.
\* GET /schemas/ids/{id} carries the schema and its type only.
RegistrySchemaByID(id) ==
    [Subject |-> "", Version |-> 0, Schema |-> Text(id),
     SchemaType |-> TypeOf(id), ID |-> 0]
\* GET /subjects/{subject}/versions/{version} and POST /subjects/{subject}.
RegistrySubjectVersion(subject, v) ==
    [Subject |-> subject, Version |-> v, Schema |-> Text(registry[subject][v]),
     SchemaType |-> TypeOf(registry[subject][v]), ID |-> registry[subject][v]]

\* The schema id a request body stands for; 0 when the registry knows none.
IdOfBody(body) ==
    LET type == IF body.schemaType = "" THEN "AVRO" ELSE body.schemaType
        ids == {i \in Ids : Text(i) = body.schema /\ TypeOf(i) = type}
    IN IF ids = {} THEN 0 ELSE CHOOSE i \in ids : TRUE

\* POST /subjects/{subject}/versions: a schema the subject holds keeps its
\* id; a new one becomes the subject's next version.
RegistryAccepts(subject, id) ==
    /\ id /= 0
    /\ id \in Range(registry[subject]) \/ Len(registry[subject]) < MaxVersions
RegistryAfterPost(subject, id) ==
    IF id \in Range(registry[subject]) THEN registry
    ELSE [registry EXCEPT ![subject] = Append(@, id)]

\* goavro.NewCodec(schema): the text has to be an Avro schema.
CodecCompiles(text) == \E i \in Ids : Text(i) = text /\ TypeOf(i) = "AVRO"

\* ----------------------------------------------------------------- caches
\* cacheKey
cacheKey(subject, version) == subject \o "-" \o version

\* A replacement for the pattern `\n`: the \r of a \r\n stays.
RECURSIVE ReplaceNewlines_OnlyLF(_)
ReplaceNewlines_OnlyLF(text) ==
    IF text = <<>> THEN <<>>
    ELSE IF text[1] = "\n"
         THEN <<" ">> \o ReplaceNewlines_OnlyLF(Tail(text))
         ELSE <<text[1]>> \o ReplaceNewlines_OnlyLF(Tail(text))

\* regexp `\r?\n` replaced by " " (CreateSchema, LookupSchema; Avro and Json).
RECURSIVE ReplaceNewlines(_)
ReplaceNewlines(text) ==
    IF text = <<>> THEN <<>>
    ELSE IF Len(text) >= 2 /\ text[1] = "\r" /\ text[2] = "\n"
         THEN <<" ">> \o ReplaceNewlines(Tail(Tail(text)))
         ELSE IF text[1] = "\n"
              THEN <<" ">> \o ReplaceNewlines(Tail(text))
              ELSE <<text[1]>> \o ReplaceNewlines(Tail(text))

\* The switch at the head of CreateSchema and LookupSchema: the text sent.
Normalized(schema, schemaType) ==
    IF schemaType \in {"AVRO", "JSON"} THEN ReplaceNewlines(schema) ELSE schema

\* The schemaRequest marshalled into the payload.
Payload(schema, schemaType) ==
    [schema |-> Normalized(schema, schemaType), schemaType |-> TypeString(schemaType)]

\* &Schema{...} from a decoded response.
SchemaOf(id, resp, codec) ==
    [id |-> id, schema |-> resp.Schema, schemaType |-> resp.SchemaType,
     version |-> resp.Version, codec |-> codec]

\* A lookup that does not ask whether caching is enabled.
IdCacheHit_IgnoresToggle(schemaID) == Lookup(idSchemaCache, schemaID) /= Nil

\* GetSchema's lookup: the entry is returned without a request.
IdCacheHit(schemaID) ==
    cachingEnabled /\ Lookup(idSchemaCache, schemaID) /= Nil

\* GetSchema after a 2xx answer: the codec, then the Schema.
GetSchemaResult(schemaID, resp) ==
    IF codecCreationEnabled /\ ~CodecCompiles(resp.Schema) THEN Err("codec")
    ELSE Ok(SchemaOf(schemaID, resp,
                     IF codecCreationEnabled THEN "codec" ELSE "nil"))

\* GetSchema's store.
IdCacheAfterGetSchema(schema) ==
    IF cachingEnabled THEN Put(idSchemaCache, schema.id, schema)
    ELSE idSchemaCache

\* A getVersion that treats "latest" as any other version token.
UsesSubjectCache_AnyToken(version) == cachingEnabled

\* getVersion: whether the subject cache is consulted and written for a token.
UsesSubjectCache(version) ==
    cachingEnabled /\ (version /= "latest" \/ (version = "latest" /\ cacheLatest))

\* getVersion's lookup.
SubjectCacheHit(subject, version) ==
    /\ UsesSubjectCache(version)
    /\ Lookup(subjectSchemaCache, cacheKey(subject, version)) /= Nil

\* getVersion after a 2xx answer.
GetVersionResult(resp) ==
    IF codecCreationEnabled /\ ~CodecCompiles(resp.Schema) THEN Err("codec")
    ELSE Ok(SchemaOf(resp.ID, resp,
                     IF codecCreationEnabled THEN "codec" ELSE "nil"))

\* getVersion's stores.
SubjectCacheAfterGetVersion(subject, version, schema) ==
    IF UsesSubjectCache(version)
    THEN Put(subjectSchemaCache, cacheKey(subject, version), schema)
    ELSE subjectSchemaCache
IdCacheAfterGetVersion(schema) ==
    IF cachingEnabled THEN Put(idSchemaCache, schema.id, schema)
    ELSE idSchemaCache

\* The stores that end CreateSchema and LookupSchema.
SubjectCacheAfterStore(subject, schema) ==
    IF cachingEnabled
    THEN Put(subjectSchemaCache, cacheKey(subject, Itoa(schema.version)), schema)
    ELSE subjectSchemaCache
IdCacheAfterStore(schema) ==
    IF cachingEnabled THEN Put(idSchemaCache, schema.id, schema)
    ELSE idSchemaCache

\* LookupSchema after a 2xx answer: a codec for the Avro type only.
LookupSchemaResult(schemaType, resp) ==
    IF codecCreationEnabled /\ schemaType = "AVRO" /\ ~CodecCompiles(resp.Schema)
    THEN Err("codec")
    ELSE Ok(SchemaOf(resp.ID, resp,
                     IF codecCreationEnabled /\ schemaType = "AVRO"
                     THEN "codec" ELSE "nil"))

\* A ResetCache that leaves the id map as it is.
IdCacheAfterReset_Kept == idSchemaCache

\* ResetCache: the two maps after the call.
IdCacheAfterReset == EmptyMap
SubjectCacheAfterReset == EmptyMap

\* A CachingEnabled that empties the id map when caching is turned off.
IdCacheAfterCachingEnabled_Evicts(value) ==
    IF value THEN idSchemaCache ELSE EmptyMap

\* CachingEnabled(value): the two maps after the call.
IdCacheAfterCachingEnabled(value) == idSchemaCache
SubjectCacheAfterCachingEnabled(value) == subjectSchemaCache

\* ------------------------------------------------------- history of caches
\* Keys of `new` that were written: absent from `old` or holding another entry.
Written(old, new) == {k \in DOMAIN new : Lookup(old, k) /= new[k]}

\* An operation is at its stores.  Keys written stop being entries from
\* before the last ResetCache, and stop being entries kept over the last
\* disabled period.
HistWrite(h, newIds, newKeys) ==
    [h EXCEPT !.staleIds = @ \ Written(idSchemaCache, newIds),
              !.staleKeys = @ \ Written(subjectSchemaCache, newKeys),
              !.keptIds = @ \ Written(idSchemaCache, newIds),
              !.keptKeys = @ \ Written(subjectSchemaCache, newKeys),
              !.worked = @ \/ (h.track = "toggle" /\ ~cachingEnabled)]

\* The history after ResetCache.
HistReset(h) ==
    [h EXCEPT !.first = EmptyMap,
              !.latest = {},
              !.staleIds = IF h.track = "reset"
                           THEN @ \cup DOMAIN idSchemaCache ELSE @,
              !.staleKeys = IF h.track = "reset"
                            THEN @ \cup DOMAIN subjectSchemaCache ELSE @,
              !.keptIds = {},
              !.keptKeys = {},
              !.atDisable = IF @.taken
                            THEN [taken |-> TRUE, ids |-> EmptyMap,
                                  keys |-> EmptyMap]
                            ELSE @]

\* The history after CachingEnabled(value).
HistCachingEnabled(h, value) ==
    IF cachingEnabled /\ ~value
    THEN [h EXCEPT !.first = EmptyMap, !.latest = {}, !.keptIds = {},
                   !.keptKeys = {}, !.worked = FALSE,
                   !.atDisable = IF h.track = "toggle"
                                 THEN [taken |-> TRUE, ids |-> idSchemaCache,
                                       keys |-> subjectSchemaCache]
                                 ELSE @]
    ELSE IF ~cachingEnabled /\ value /\ h.track = "toggle"
         THEN [h EXCEPT !.keptIds = DOMAIN h.atDisable.ids,
                        !.keptKeys = DOMAIN h.atDisable.keys,
                        !.atDisable = NoSnapshot]
         ELSE h

\* A GetSchema(id) returned `schema`: the first such result with caching on.
HistGetSchema(h, id, schema) ==
    IF h.track = "first" /\ cachingEnabled /\ Lookup(h.first, id) = Nil
    THEN [h EXCEPT !.first = Put(@, id, schema)]
    ELSE h

\* A GetLatestSchema(subject) returned with caching and cacheLatest on.
HistGetLatest(h, subject, version) ==
    IF h.track = "latest" /\ cachingEnabled /\ cacheLatest /\ version = "latest"
    THEN [h EXCEPT !.latest = @ \cup {subject}]
    ELSE h

\* ResetCache assigns the id map: a new reset, nothing seen of it yet.
HistAssignId(h) ==
    IF h.track = "atomic"
    THEN [h EXCEPT !.atomic =
             [cleared |-> "id",
              wiped |-> idSchemaCache /= EmptyMap /\ subjectSchemaCache /= EmptyMap,
              sawCleared |-> FALSE, sawBoth |-> FALSE, torn |-> @.torn]]
    ELSE h

\* ResetCache assigns the subject map.
HistAssignSubject(h) ==
    IF h.track = "atomic" THEN [h EXCEPT !.atomic.cleared = "both"] ELSE h

\* A lookup in the id map.
HistReadId(h) ==
    IF h.track = "atomic" /\ h.atomic.cleared /= "none"
    THEN [h EXCEPT !.atomic.sawCleared = TRUE]
    ELSE h

\* A lookup in the subject map.
HistReadKey(h) ==
    IF h.track = "atomic" /\ h.atomic.sawCleared
    THEN [h EXCEPT !.atomic.sawBoth = @ \/ h.atomic.cleared = "both",
                   !.atomic.torn = @ \/ (h.atomic.cleared = "id"
                                            /\ subjectSchemaCache /= EmptyMap)]
    ELSE h

\* What a lookup found: the flags, the entry, and what history says of the key.
CheckId(id) ==
    [at |-> "id", enabled |-> cachingEnabled, latest |-> cacheLatest,
     present |-> Lookup(idSchemaCache, id), first |-> Lookup(hist.first, id),
     again |-> FALSE, stale |-> id \in hist.staleIds,
     kept |-> id \in hist.keptIds]
CheckKey(subject, version) ==
    [at |-> "subject", enabled |-> cachingEnabled, latest |-> cacheLatest,
     present |-> Lookup(subjectSchemaCache, cacheKey(subject, version)),
     first |-> Nil, again |-> version = "latest" /\ subject \in hist.latest,
     stale |-> cacheKey(subject, version) \in hist.staleKeys,
     kept |-> cacheKey(subject, version) \in hist.keptKeys]

\* ------------------------------------------------------------ cache locks
\* idSchemaCacheLock and subjectSchemaCacheLock.  The operations take one of
\* them for a single map access and give it back in the same step; only
\* ResetCache keeps them over several steps, so who holds what follows from
\* where the goroutines in ResetCache are.
LocksHeld_None(p) == {}

\* Lines 205-210: the locks ResetCache holds at each point.
LocksHeld(p) ==
    CASE p = "reset_id_locked" -> {"id"}
      [] p \in {"reset_locked", "reset_id_cleared", "reset_cleared"}
             -> {"id", "subject"}
      [] p = "reset_id_unlocked" -> {"subject"}
      [] OTHER -> {}

IdLockFree == \A t \in Threads : "id" \notin LocksHeld(pc[t])
SubjectLockFree == \A t \in Threads : "subject" \notin LocksHeld(pc[t])

\* -------------------------------------------------------------- operations
\* An operation returns without a request.
Finish(t, c, r) ==
    /\ pc' = [pc EXCEPT ![t] = "done"]
    /\ call' = [call EXCEPT ![t] = c]
    /\ result' = [result EXCEPT ![t] = r]

\* GetSchema(ctx, schemaID) up to its request.
GetSchema(t, schemaID) ==
    /\ pc[t] = "idle"
    /\ cachingEnabled => IdLockFree
    /\ checked' = [checked EXCEPT ![t] = CheckId(schemaID)]
    /\ LET c == [op |-> "GetSchema", id |-> schemaID] IN
       IF IdCacheHit(schemaID)
       THEN /\ Finish(t, c, Ok(Lookup(idSchemaCache, schemaID)))
            /\ hist' = HistReadId(HistGetSchema(hist, schemaID,
                                                Lookup(idSchemaCache, schemaID)))
            /\ UNCHANGED <<request, header>>
       ELSE /\ Send(t, c, Req("GET", "schemaByID", "", Itoa(schemaID), "", NoBody))
            /\ hist' = IF cachingEnabled THEN HistReadId(hist) ELSE hist
            /\ UNCHANGED result
    /\ UNCHANGED <<clientVars, registry, ctxCancelled, reqs, postID, lastSet,
                   lastEffective>>

\* GetSchema from the 2xx answer to its return.
GetSchemaOk(t) ==
    /\ pc[t] = "inflight"
    /\ ~ctxCancelled[t]
    /\ call[t].op = "GetSchema"
    /\ LET r == GetSchemaResult(call[t].id, RegistrySchemaByID(call[t].id)) IN
       /\ (r.ok /\ cachingEnabled) => IdLockFree
       /\ result' = [result EXCEPT ![t] = r]
       /\ idSchemaCache' =
             IF r.ok THEN IdCacheAfterGetSchema(r.schema) ELSE idSchemaCache
       /\ hist' = IF r.ok
                  THEN HistWrite(HistGetSchema(hist, call[t].id, r.schema),
                                 idSchemaCache', subjectSchemaCache)
                  ELSE hist
    /\ semHeld' = Released
    /\ pc' = [pc EXCEPT ![t] = "done"]
    /\ UNCHANGED <<semSize, flagVars, subjectSchemaCache, authVars, registry,
                   call, ctxCancelled, request, header, reqs, postID, checked>>

\* getVersion(ctx, subject, version) up to its request.
GetVersion(t, op, subject, version) ==
    /\ pc[t] = "idle"
    /\ UsesSubjectCache(version) => SubjectLockFree
    /\ checked' = [checked EXCEPT ![t] = CheckKey(subject, version)]
    /\ LET c == [op |-> op, subject |-> subject, version |-> version]
           cached == Lookup(subjectSchemaCache, cacheKey(subject, version)) IN
       IF SubjectCacheHit(subject, version)
       THEN /\ Finish(t, c, Ok(cached))
            /\ hist' = HistReadKey(HistGetLatest(hist, subject, version))
            /\ UNCHANGED <<request, header>>
       ELSE /\ Send(t, c, Req("GET", "subjectByVersion", subject, version, "", NoBody))
            /\ hist' = IF UsesSubjectCache(version) THEN HistReadKey(hist) ELSE hist
            /\ UNCHANGED result
    /\ UNCHANGED <<clientVars, registry, ctxCancelled, reqs, postID, lastSet,
                   lastEffective>>

\* GetLatestSchema(ctx, subject)
GetLatestSchema(t, subject) == GetVersion(t, "GetLatestSchema", subject, "latest")

\* GetSchemaByVersion(ctx, subject, version)
GetSchemaByVersion(t, subject, version) ==
    GetVersion(t, "GetSchemaByVersion", subject, Itoa(version))

\* getVersion from the 2xx answer to its return.
GetVersionOk(t) ==
    /\ pc[t] = "inflight"
    /\ ~ctxCancelled[t]
    /\ call[t].op \in {"GetLatestSchema", "GetSchemaByVersion"}
    /\ ResolveVersion(call[t].subject, call[t].version) /= 0
    /\ LET resp == RegistrySubjectVersion(call[t].subject,
                       ResolveVersion(call[t].subject, call[t].version))
           r == GetVersionResult(resp) IN
       /\ (r.ok /\ cachingEnabled) => IdLockFree
       /\ (r.ok /\ UsesSubjectCache(call[t].version)) => SubjectLockFree
       /\ result' = [result EXCEPT ![t] = r]
       /\ subjectSchemaCache' =
             IF r.ok
             THEN SubjectCacheAfterGetVersion(call[t].subject, call[t].version, r.schema)
             ELSE subjectSchemaCache
       /\ idSchemaCache' =
             IF r.ok THEN IdCacheAfterGetVersion(r.schema) ELSE idSchemaCache
       /\ hist' = IF r.ok
                  THEN HistWrite(HistGetLatest(hist, call[t].subject, call[t].version),
                                 idSchemaCache', subjectSchemaCache')
                  ELSE hist
    /\ semHeld' = Released
    /\ pc' = [pc EXCEPT ![t] = "done"]
    /\ UNCHANGED <<semSize, flagVars, authVars, registry, call, ctxCancelled,
                   request, header, reqs, postID, checked>>

\* CreateSchema(ctx, subject, schema, schemaType) up to its POST.
CreateSchema(t, subject, schema, schemaType) ==
    /\ pc[t] = "idle"
    /\ LET c == [op |-> "CreateSchema", subject |-> subject, schema |-> schema,
                 schemaType |-> schemaType] IN
       IF schemaType \notin SchemaTypes
       THEN /\ Finish(t, c, Err("invalid schema type"))
            /\ UNCHANGED <<request, header>>
       ELSE /\ Send(t, c, Req("POST", "subjectVersions", subject, "", "",
                              Payload(schema, schemaType)))
            /\ UNCHANGED result
    /\ UNCHANGED <<clientVars, registry, ctxCancelled, reqs, postID, historyVars>>

\* CreateSchema from the 2xx answer to its POST, into GetSchema(schemaResp.ID)
\* up to that call's request.
CreateSchemaPosted(t) ==
    /\ pc[t] = "inflight"
    /\ ~ctxCancelled[t]
    /\ call[t].op = "CreateSchema"
    /\ request[t].path = "subjectVersions"
    /\ LET id == IdOfBody(request[t].body) IN
       /\ RegistryAccepts(call[t].subject, id)
       /\ cachingEnabled => IdLockFree
       /\ registry' = RegistryAfterPost(call[t].subject, id)
       /\ postID' = [postID EXCEPT ![t] = id]
       /\ IF IdCacheHit(id)
          THEN /\ pc' = [pc EXCEPT ![t] = "store"]
               /\ result' = [result EXCEPT ![t] = Ok(Lookup(idSchemaCache, id))]
               /\ UNCHANGED <<call, request, header>>
          ELSE /\ Send(t, call[t], Req("GET", "schemaByID", "", Itoa(id), "", NoBody))
               /\ UNCHANGED result
    /\ hist' = IF cachingEnabled THEN HistReadId(hist) ELSE hist
    /\ semHeld' = Released
    /\ UNCHANGED <<semSize, cacheVars, authVars, ctxCancelled, reqs, checked>>

\* CreateSchema's GetSchema from the 2xx answer to its return.
CreateSchemaFetched(t) ==
    /\ pc[t] = "inflight"
    /\ ~ctxCancelled[t]
    /\ call[t].op = "CreateSchema"
    /\ request[t].path = "schemaByID"
    /\ LET r == GetSchemaResult(postID[t], RegistrySchemaByID(postID[t])) IN
       /\ (r.ok /\ cachingEnabled) => IdLockFree
       /\ result' = [result EXCEPT ![t] = r]
       /\ idSchemaCache' =
             IF r.ok THEN IdCacheAfterGetSchema(r.schema) ELSE idSchemaCache
       /\ pc' = [pc EXCEPT ![t] = IF r.ok THEN "store" ELSE "done"]
       /\ hist' = HistWrite(hist, idSchemaCache', subjectSchemaCache)
    /\ semHeld' = Released
    /\ UNCHANGED <<semSize, flagVars, subjectSchemaCache, authVars, registry,
                   call, ctxCancelled, request, header, reqs, postID, checked>>

\* CreateSchema's own stores, and its return.
CreateSchemaStore(t) ==
    /\ pc[t] = "store"
    /\ cachingEnabled => (SubjectLockFree /\ IdLockFree)
    /\ subjectSchemaCache' = SubjectCacheAfterStore(call[t].subject, result[t].schema)
    /\ idSchemaCache' = IdCacheAfterStore(result[t].schema)
    /\ hist' = HistWrite(hist, idSchemaCache', subjectSchemaCache')
    /\ pc' = [pc EXCEPT ![t] = "done"]
    /\ UNCHANGED <<semVars, flagVars, authVars, registry, call, ctxCancelled,
                   request, header, reqs, postID, result, checked>>

\* LookupSchema(ctx, subject, schema, schemaType) up to its POST.
LookupSchema(t, subject, schema, schemaType) ==
    /\ pc[t] = "idle"
    /\ LET c == [op |-> "LookupSchema", subject |-> subject, schema |-> schema,
                 schemaType |-> schemaType] IN
       IF schemaType \notin SchemaTypes
       THEN /\ Finish(t, c, Err("invalid schema type"))
            /\ UNCHANGED <<request, header>>
       ELSE /\ Send(t, c, Req("POST", "subjectBySubject", subject, "", "",
                              Payload(schema, schemaType)))
            /\ UNCHANGED result
    /\ UNCHANGED <<clientVars, registry, ctxCancelled, reqs, postID, historyVars>>

\* LookupSchema from the 2xx answer to its return.
LookupSchemaOk(t) ==
    /\ pc[t] = "inflight"
    /\ ~ctxCancelled[t]
    /\ call[t].op = "LookupSchema"
    /\ IdOfBody(request[t].body) \in Range(registry[call[t].subject])
    /\ LET resp == RegistrySubjectVersion(call[t].subject,
                       VersionOf(call[t].subject, IdOfBody(request[t].body)))
           r == LookupSchemaResult(call[t].schemaType, resp) IN
       /\ (r.ok /\ cachingEnabled) => (SubjectLockFree /\ IdLockFree)
       /\ result' = [result EXCEPT ![t] = r]
       /\ subjectSchemaCache' =
             IF r.ok THEN SubjectCacheAfterStore(call[t].subject, r.schema)
             ELSE subjectSchemaCache
       /\ idSchemaCache' = IF r.ok THEN IdCacheAfterStore(r.schema) ELSE idSchemaCache
       /\ hist' = HistWrite(hist, idSchemaCache', subjectSchemaCache')
    /\ semHeld' = Released
    /\ pc' = [pc EXCEPT ![t] = "done"]
    /\ UNCHANGED <<semSize, flagVars, authVars, registry, call, ctxCancelled,
                   request, header, reqs, postID, checked>>

\* A GetSchemaVersions that answers from the subject map when it can.
GetSchemaVersions_Cached(t, subject) ==
    /\ pc[t] = "idle"
    /\ LET c == [op |-> "GetSchemaVersions", subject |-> subject] IN
       IF cachingEnabled /\ DOMAIN subjectSchemaCache /= {}
       THEN /\ Finish(t, c, OkValue(<<1>>))
            /\ UNCHANGED <<request, header>>
       ELSE /\ Send(t, c, Req("GET", "subjectVersions", subject, "", "", NoBody))
            /\ UNCHANGED result
    /\ UNCHANGED <<clientVars, registry, ctxCancelled, reqs, postID, historyVars>>

\* GetSchemaVersions(ctx, subject): GET /subjects/{subject}/versions.
GetSchemaVersions(t, subject) ==
    /\ pc[t] = "idle"
    /\ Send(t, [op |-> "GetSchemaVersions", subject |-> subject],
            Req("GET", "subjectVersions", subject, "", "", NoBody))
    /\ UNCHANGED <<clientVars, registry, ctxCancelled, reqs, postID, result,
                   historyVars>>

\* GetSchemaVersions: the list of versions is decoded and returned.
GetSchemaVersionsOk(t) ==
    /\ pc[t] = "inflight"
    /\ ~ctxCancelled[t]
    /\ call[t].op = "GetSchemaVersions"
    /\ semHeld' = Released
    /\ result' = [result EXCEPT ![t] =
                     OkValue([v \in 1..Len(registry[call[t].subject]) |-> v])]
    /\ pc' = [pc EXCEPT ![t] = "done"]
    /\ UNCHANGED <<semSize, credentials, credsRLocks, cacheVars, registry, call,
                   ctxCancelled, request, header, reqs, postID, historyVars>>

\* The schemaRequest of IsSchemaCompatible: the text and the type as given.
CompatibilityPayload(schema, schemaType) ==
    [schema |-> schema, schemaType |-> TypeString(schemaType)]

\* IsSchemaCompatible(ctx, subject, schema, version, schemaType):
\* POST /compatibility/subjects/{subject}/versions/{version}.
IsSchemaCompatible(t, subject, schema, version, schemaType) ==
    /\ pc[t] = "idle"
    /\ Send(t, [op |-> "IsSchemaCompatible", subject |-> subject,
                schema |-> schema, version |-> version,
                schemaType |-> schemaType],
            Req("POST", "compatibility", subject, version, "",
                CompatibilityPayload(schema, schemaType)))
    /\ UNCHANGED <<clientVars, registry, ctxCancelled, reqs, postID, result,
                   historyVars>>

\* IsSchemaCompatible: the registry knows the type and the version, and
\* answers with a flag that is decoded and returned.
IsSchemaCompatibleOk(t) ==
    /\ pc[t] = "inflight"
    /\ ~ctxCancelled[t]
    /\ call[t].op = "IsSchemaCompatible"
    /\ request[t].body.schemaType \in {TypeString(type) : type \in SchemaTypes}
    /\ ResolveVersion(call[t].subject, call[t].version) /= 0
    /\ semHeld' = Released
    /\ \E is_compatible \in BOOLEAN :
          result' = [result EXCEPT ![t] = OkValue(is_compatible)]
    /\ pc' = [pc EXCEPT ![t] = "done"]
    /\ UNCHANGED <<semSize, credentials, credsRLocks, cacheVars, registry, call,
                   ctxCancelled, request, header, reqs, postID, historyVars>>

\* The query the second DELETE of a permanent delete adds to the URI.
Permanent == "permanent=true"

\* DeleteSubject(ctx, subject, permanent) up to its first DELETE.
DeleteSubject(t, subject, permanent) ==
    /\ pc[t] = "idle"
    /\ Send(t, [op |-> "DeleteSubject", subject |-> subject,
                permanent |-> permanent],
            Req("DELETE", "subject", subject, "", "", NoBody))
    /\ UNCHANGED <<clientVars, registry, ctxCancelled, reqs, postID, result,
                   historyVars>>

\* DeleteSubjectByVersion(ctx, subject, version, permanent) up to its first
\* DELETE.
DeleteSubjectByVersion(t, subject, version, permanent) ==
    /\ pc[t] = "idle"
    /\ Send(t, [op |-> "DeleteSubjectByVersion", subject |-> subject,
                version |-> version, permanent |-> permanent],
            Req("DELETE", "subjectByVersion", subject, Itoa(version), "", NoBody))
    /\ UNCHANGED <<clientVars, registry, ctxCancelled, reqs, postID, result,
                   historyVars>>

\* Whether a delete goes on to its second DELETE once this one has succeeded.
SecondDelete_Always(permanent, query) == query /= Permanent

\* Lines 535 and 548: `if err != nil || !permanent { return err }`, err nil.
SecondDelete(permanent, query) == permanent /\ query /= Permanent

\* A delete that takes the subject's entries out of the subject map.
DeleteOk_Evicts(t) ==
    /\ pc[t] = "inflight"
    /\ ~ctxCancelled[t]
    /\ call[t].op \in {"DeleteSubject", "DeleteSubjectByVersion"}
    /\ IF SecondDelete(call[t].permanent, request[t].query)
       THEN /\ Send(t, call[t], [request[t] EXCEPT !.query = Permanent])
            /\ UNCHANGED result
       ELSE /\ pc' = [pc EXCEPT ![t] = "done"]
            /\ result' = [result EXCEPT ![t] = Ok(Nil)]
            /\ UNCHANGED <<call, request, header>>
    /\ subjectSchemaCache' =
          [key \in {x \in DOMAIN subjectSchemaCache :
                       \A token \in {"latest"} \cup {Itoa(v) : v \in 0..MaxVersions} :
                           x /= call[t].subject \o "-" \o token}
              |-> subjectSchemaCache[key]]
    /\ semHeld' = Released
    /\ UNCHANGED <<semSize, credentials, credsRLocks, flagVars, idSchemaCache,
                   registry, ctxCancelled, reqs, postID, historyVars>>

\* A DELETE answered 2xx: the operation returns nil, or sends the DELETE
\* with ?permanent=true.  What the registry keeps of deleted subjects is its
\* own business; the client holds no state about it.
DeleteOk(t) ==
    /\ pc[t] = "inflight"
    /\ ~ctxCancelled[t]
    /\ call[t].op \in {"DeleteSubject", "DeleteSubjectByVersion"}
    /\ IF SecondDelete(call[t].permanent, request[t].query)
       THEN /\ Send(t, call[t], [request[t] EXCEPT !.query = Permanent])
            /\ UNCHANGED result
       ELSE /\ pc' = [pc EXCEPT ![t] = "done"]
            /\ result' = [result EXCEPT ![t] = Ok(Nil)]
            /\ UNCHANGED <<call, request, header>>
    /\ semHeld' = Released
    /\ UNCHANGED <<semSize, credentials, credsRLocks, cacheVars, registry,
                   ctxCancelled, reqs, postID, historyVars>>

\* GetSubjectsIncludingDeleted(ctx): GET /subjects?deleted=true.
GetSubjectsIncludingDeleted(t) ==
    /\ pc[t] = "idle"
    /\ Send(t, [op |-> "GetSubjectsIncludingDeleted"],
            Req("GET", "subjects", "", "", "deleted=true", NoBody))
    /\ UNCHANGED <<clientVars, registry, ctxCancelled, reqs, postID, result,
                   historyVars>>

\* The compatibility levels the calls below are made with or answered with.
CompatibilityLevels == {"BACKWARD", "FULL"}

\* GetGlobalCompatibilityLevel(ctx): GET /config.
GetGlobalCompatibilityLevel(t) ==
    /\ pc[t] = "idle"
    /\ Send(t, [op |-> "GetGlobalCompatibilityLevel"],
            Req("GET", "config", "", "", "", NoBody))
    /\ UNCHANGED <<clientVars, registry, ctxCancelled, reqs, postID, result,
                   historyVars>>

\* GetCompatibilityLevel(ctx, subject, defaultToGlobal):
\* GET /config/{subject}?defaultToGlobal=%t.
GetCompatibilityLevel(t, subject, defaultToGlobal) ==
    /\ pc[t] = "idle"
    /\ Send(t, [op |-> "GetCompatibilityLevel", subject |-> subject],
            Req("GET", "configBySubject", subject, "",
                IF defaultToGlobal THEN "defaultToGlobal=true"
                ELSE "defaultToGlobal=false", NoBody))
    /\ UNCHANGED <<clientVars, registry, ctxCancelled, reqs, postID, result,
                   historyVars>>

\* ChangeSubjectCompatibilityLevel(ctx, subject, compatibility):
\* PUT /config/{subject} with the configChangeRequest.
ChangeSubjectCompatibilityLevel(t, subject, compatibility) ==
    /\ pc[t] = "idle"
    /\ Send(t, [op |-> "ChangeSubjectCompatibilityLevel", subject |-> subject],
            Req("PUT", "configBySubject", subject, "", "",
                [compatibility |-> compatibility]))
    /\ UNCHANGED <<clientVars, registry, ctxCancelled, reqs, postID, result,
                   historyVars>>

\* The three operations on /config: the level of the answer is decoded and
\* returned.
ConfigOk(t) ==
    /\ pc[t] = "inflight"
    /\ ~ctxCancelled[t]
    /\ call[t].op \in {"GetGlobalCompatibilityLevel", "GetCompatibilityLevel",
                       "ChangeSubjectCompatibilityLevel"}
    /\ semHeld' = Released
    /\ \E level \in CompatibilityLevels :
          result' = [result EXCEPT ![t] = OkValue(level)]
    /\ pc' = [pc EXCEPT ![t] = "done"]
    /\ UNCHANGED <<semSize, credentials, credsRLocks, cacheVars, registry, call,
                   ctxCancelled, request, header, reqs, postID, historyVars>>

\* ResetCache()
ResetCache ==
    /\ idSchemaCache' = IdCacheAfterReset
    /\ subjectSchemaCache' = SubjectCacheAfterReset
    /\ hist' = HistReset(hist)
    /\ UNCHANGED <<semVars, flagVars, authVars, registry, threadVars, checked>>

\* ResetCache() lock by lock, as the goroutines beside it meet it.
\* Line 205: idSchemaCacheLock.Lock().
ResetLockId(r) ==
    /\ pc[r] = "idle"
    /\ IdLockFree
    /\ pc' = [pc EXCEPT ![r] = "reset_id_locked"]
    /\ UNCHANGED <<clientVars, registry, call, ctxCancelled, request, header,
                   reqs, postID, result, historyVars>>

\* Line 206: subjectSchemaCacheLock.Lock().
ResetLockSubject(r) ==
    /\ pc[r] = "reset_id_locked"
    /\ SubjectLockFree
    /\ pc' = [pc EXCEPT ![r] = "reset_locked"]
    /\ UNCHANGED <<clientVars, registry, call, ctxCancelled, request, header,
                   reqs, postID, result, historyVars>>

\* Line 207: client.idSchemaCache = make(map[int]*Schema).
ResetAssignId(r) ==
    /\ pc[r] = "reset_locked"
    /\ idSchemaCache' = IdCacheAfterReset
    /\ hist' = HistAssignId(hist)
    /\ pc' = [pc EXCEPT ![r] = "reset_id_cleared"]
    /\ UNCHANGED <<semVars, flagVars, subjectSchemaCache, authVars, registry,
                   call, ctxCancelled, request, header, reqs, postID, result,
                   checked>>

\* Line 208: client.subjectSchemaCache = make(map[string]*Schema).
ResetAssignSubject(r) ==
    /\ pc[r] = "reset_id_cleared"
    /\ subjectSchemaCache' = SubjectCacheAfterReset
    /\ hist' = HistAssignSubject(hist)
    /\ pc' = [pc EXCEPT ![r] = "reset_cleared"]
    /\ UNCHANGED <<semVars, flagVars, idSchemaCache, authVars, registry, call,
                   ctxCancelled, request, header, reqs, postID, result, checked>>

\* Line 209: idSchemaCacheLock.Unlock().
ResetUnlockId(r) ==
    /\ pc[r] = "reset_cleared"
    /\ pc' = [pc EXCEPT ![r] = "reset_id_unlocked"]
    /\ UNCHANGED <<clientVars, registry, call, ctxCancelled, request, header,
                   reqs, postID, result, historyVars>>

\* Line 210: subjectSchemaCacheLock.Unlock().
ResetUnlockSubject(r) ==
    /\ pc[r] = "reset_id_unlocked"
    /\ pc' = [pc EXCEPT ![r] = "idle"]
    /\ UNCHANGED <<clientVars, registry, call, ctxCancelled, request, header,
                   reqs, postID, result, historyVars>>

\* CachingEnabled(value)
CachingEnabled(value) ==
    /\ cachingEnabled' = value
    /\ idSchemaCache' = IdCacheAfterCachingEnabled(value)
    /\ subjectSchemaCache' = SubjectCacheAfterCachingEnabled(value)
    /\ hist' = HistCachingEnabled(hist, value)
    /\ UNCHANGED <<semVars, cacheLatest, codecCreationEnabled, authVars, registry,
                   threadVars, checked>>

\* CacheLatest(value)
CacheLatest(value) ==
    /\ cacheLatest' = value
    /\ hist' = IF value THEN hist ELSE [hist EXCEPT !.latest = {}]
    /\ UNCHANGED <<semVars, cachingEnabled, codecCreationEnabled, idSchemaCache,
                   subjectSchemaCache, authVars, registry, threadVars, checked>>

\* CodecCreationEnabled(value)
CodecCreationEnabled(value) ==
    /\ codecCreationEnabled' = value
    /\ UNCHANGED <<semVars, cachingEnabled, cacheLatest, idSchemaCache,
                   subjectSchemaCache, authVars, registry, threadVars, checked,
                   hist>>

\* ---------------------------------------------------------- specifications
\* The client as CreateSchemaRegistryClientWithOptions returns it, no
\* operation started.
InitClient ==
    /\ semHeld = 0
    /\ credentials = NoCredentials
    /\ credsRLocks = 0
    /\ cachingEnabled = TRUE
    /\ cacheLatest = FALSE
    /\ codecCreationEnabled = FALSE
    /\ idSchemaCache = EmptyMap
    /\ subjectSchemaCache = EmptyMap
    /\ pc = [t \in Threads |-> "idle"]
    /\ call = [t \in Threads |-> NoCall]
    /\ ctxCancelled = [t \in Threads |-> FALSE]
    /\ request = [t \in Threads |-> NoRequest]
    /\ header = [t \in Threads |-> NoHeader]
    /\ reqs = [t \in Threads |-> <<>>]
    /\ postID = [t \in Threads |-> 0]
    /\ result = [t \in Threads |-> NoResult]
    /\ lastSet = NothingAsked
    /\ lastEffective = NothingAsked
    /\ checked = [t \in Threads |-> NoCheck]
    /\ hist \in {NoHistory(track) : track \in Tracks \cup {"none"}}

\* The registry the client talks to.
InitRegistry ==
    registry = [s \in Subjects |-> IF s = "a" THEN <<1>> ELSE <<2, 1>>]

\* Concurrent requests through the gate: any capacity 1..MaxCap, more
\* callers than units, contexts cancelled at any point of a request.
Init ==
    /\ InitClient
    /\ InitRegistry
    /\ hist.track = "none"
    /\ semSize \in 1..MaxCap

Next ==
    \E t \in Threads :
        \/ GetSubjects(t)
        \/ ResolveAuth(t)
        \/ Acquire(t)
        \/ HttpFail(t)
        \/ GetSubjectsOk(t)
        \/ Cancel(t)
        \/ Return(t)

Spec == Init /\ [][Next]_vars

\* The credential slot: setters racing with requests that resolve their
\* Authorization header, with a token provider that can fail.
InitCreds ==
    /\ InitClient
    /\ InitRegistry
    /\ hist.track = "none"
    /\ semSize = DefaultWeight

NextCreds ==
    \E t \in CredThreads :
        \/ GetSubjects(t)
        \/ ResolveAuth(t)
        \/ ObtainToken(t)
        \/ TokenOk(t)
        \/ TokenFail(t)
        \/ Acquire(t)
        \/ HttpFail(t)
        \/ GetSubjectsOk(t)
        \/ Return(t)
        \/ \E u \in Usernames, p \in Passwords : SetCredentials(t, u, p)
        \/ \E k \in Providers : SetBearerToken(t, k)
        \/ SetterLocked(t)

SpecCreds == InitCreds /\ [][NextCreds]_vars

\* The gate and the token provider together: with a provider set, more
\* requests than the gate has units resolve their Authorization header and
\* go through the gate, for any capacity 1..MaxCap.
NextGate ==
    \E t \in Threads :
        \/ GetSubjects(t)
        \/ ResolveAuth(t)
        \/ ObtainToken(t)
        \/ TokenOk(t)
        \/ TokenFail(t)
        \/ Acquire(t)
        \/ HttpFail(t)
        \/ GetSubjectsOk(t)
        \/ Return(t)
        \/ SetBearerToken(t, "tp")
        \/ SetterLocked(t)

SpecGate == Init /\ [][NextGate]_vars

\* The caches: the schema operations of one goroutine at a time, with
\* ResetCache and the toggles called at any point of an operation, against
\* a registry whose subject gains versions.  The parameter is the part of the
\* history the behaviour keeps.
InitCache(track) ==
    /\ InitClient
    /\ InitRegistry
    /\ hist.track = track
    /\ semSize = DefaultWeight

NextCache ==
    \/ \E t \in CacheThreads :
        \/ \E id \in Ids : GetSchema(t, id)
        \/ GetSchemaOk(t)
        \/ \E subject \in CacheSubjects : GetLatestSchema(t, subject)
        \/ \E subject \in CacheSubjects, v \in 1..MaxVersions :
              GetSchemaByVersion(t, subject, v)
        \/ GetVersionOk(t)
        \/ \E subject \in CacheSubjects, id \in Ids :
              \E type \in {TypeOf(id), "XML"} :
                  CreateSchema(t, subject, Text(id), type)
        \/ CreateSchemaPosted(t)
        \/ CreateSchemaFetched(t)
        \/ CreateSchemaStore(t)
        \/ \E subject \in CacheSubjects, id \in Ids :
              \E type \in {TypeOf(id), "XML"} :
                  LookupSchema(t, subject, Text(id), type)
        \/ LookupSchemaOk(t)
        \/ ResolveAuth(t)
        \/ Acquire(t)
        \/ HttpFail(t)
        \/ Return(t)
    \/ ResetCache
    \/ \E value \in BOOLEAN : CachingEnabled(value)
    \/ \E value \in BOOLEAN : CacheLatest(value)

\* Every operation of the client that sends requests, one goroutine at a
\* time, with ResetCache and the toggles in between; no history is kept.
NextOps ==
    \/ NextCache
    \/ \E t \in CacheThreads :
        \/ \E subject \in CacheSubjects : GetSchemaVersions(t, subject)
        \/ GetSchemaVersionsOk(t)
        \/ \E subject \in CacheSubjects, id \in Ids, version \in {"1", "latest"} :
              \E type \in {TypeOf(id), "XML"} :
                  IsSchemaCompatible(t, subject, Text(id), version, type)
        \/ IsSchemaCompatibleOk(t)
        \/ \E subject \in CacheSubjects, permanent \in BOOLEAN :
              DeleteSubject(t, subject, permanent)
        \/ \E subject \in CacheSubjects, permanent \in BOOLEAN :
              DeleteSubjectByVersion(t, subject, 1, permanent)
        \/ DeleteOk(t)
        \/ GetSubjects(t)
        \/ GetSubjectsIncludingDeleted(t)
        \/ GetSubjectsOk(t)
        \/ GetGlobalCompatibilityLevel(t)
        \/ \E subject \in CacheSubjects, defaultToGlobal \in BOOLEAN :
              GetCompatibilityLevel(t, subject, defaultToGlobal)
        \/ \E subject \in CacheSubjects, compatibility \in CompatibilityLevels :
              ChangeSubjectCompatibilityLevel(t, subject, compatibility)
        \/ ConfigOk(t)

SpecOps == InitCache("none") /\ [][NextOps]_vars

\* The schema texts of CreateSchema and LookupSchema: every text of up to
\* MaxLen characters out of \r, \n and a character that is neither, sent
\* with each schema type to a registry that knows none of them.
Chars == {"\r", "\n", "x"}
Texts == UNION {[1..n -> Chars] : n \in 0..MaxLen}

NextNormalize ==
    \E t \in CacheThreads :
        \/ \E subject \in CacheSubjects, text \in Texts, type \in SchemaTypes :
              CreateSchema(t, subject, text, type)
        \/ \E subject \in CacheSubjects, text \in Texts, type \in SchemaTypes :
              LookupSchema(t, subject, text, type)
        \/ ResolveAuth(t)
        \/ Acquire(t)
        \/ HttpFail(t)
        \/ Return(t)

SpecNormalize == InitCache("none") /\ [][NextNormalize]_vars

\* ResetCache beside its callers: two goroutines look schemas up by id and
\* by version, one call after the other, while a third is in ResetCache,
\* taken lock by lock and assignment by assignment.
ResetCallers == {1, 3}
ResetThreads == {2}

NextReset ==
    \/ \E t \in ResetCallers :
        \/ \E id \in Ids : GetSchema(t, id)
        \/ GetSchemaOk(t)
        \/ \E subject \in CacheSubjects, v \in 1..MaxVersions :
              GetSchemaByVersion(t, subject, v)
        \/ GetVersionOk(t)
        \/ ResolveAuth(t)
        \/ Acquire(t)
        \/ HttpFail(t)
        \/ Return(t)
    \/ \E r \in ResetThreads :
        \/ ResetLockId(r)
        \/ ResetLockSubject(r)
        \/ ResetAssignId(r)
        \/ ResetAssignSubject(r)
        \/ ResetUnlockId(r)
        \/ ResetUnlockSubject(r)

SpecReset == InitCache("atomic") /\ [][NextReset]_vars

\* Subjects that share a schema id: the schema operations of one goroutine
\* over both subjects of the registry, caching enabled throughout.
NextShared ==
    \E t \in CacheThreads :
        \/ \E id \in Ids : GetSchema(t, id)
        \/ GetSchemaOk(t)
        \/ \E subject \in Subjects : GetLatestSchema(t, subject)
        \/ \E subject \in Subjects, v \in 1..MaxVersions :
              GetSchemaByVersion(t, subject, v)
        \/ GetVersionOk(t)
        \/ \E subject \in Subjects, id \in Ids :
              CreateSchema(t, subject, Text(id), TypeOf(id))
        \/ CreateSchemaPosted(t)
        \/ CreateSchemaFetched(t)
        \/ CreateSchemaStore(t)
        \/ \E subject \in Subjects, id \in Ids :
              LookupSchema(t, subject, Text(id), TypeOf(id))
        \/ LookupSchemaOk(t)
        \/ ResolveAuth(t)
        \/ Acquire(t)
        \/ HttpFail(t)
        \/ Return(t)

SpecShared == InitCache("none") /\ [][NextShared]_vars

\* Cache keys: GetSchemaByVersion called with any int, the negative ones
\* too, for subjects whose names may hold the "-" that cacheKey joins with.
KeySubjects == {"a", "a-"}
KeyVersions == (0 - MaxVersions)..MaxVersions

InitKeys ==
    /\ InitClient
    /\ hist.track = "none"
    /\ semSize = DefaultWeight
    /\ registry = [s \in KeySubjects |-> IF s = "a" THEN <<1>> ELSE <<1, 2>>]

NextKeys ==
    \E t \in CacheThreads :
        \/ \E subject \in KeySubjects, v \in KeyVersions :
              GetSchemaByVersion(t, subject, v)
        \/ \E subject \in KeySubjects : GetLatestSchema(t, subject)
        \/ GetVersionOk(t)
        \/ ResolveAuth(t)
        \/ Acquire(t)
        \/ HttpFail(t)
        \/ Return(t)

SpecKeys == InitKeys /\ [][NextKeys]_vars

\* Codec creation: schemas of the three types fetched by id and by version
\* with CodecCreationEnabled switched at any point.
CodecIds == {1, 2, 3}

InitCodec ==
    /\ InitClient
    /\ hist.track = "none"
    /\ semSize = DefaultWeight
    /\ registry = [s \in Subjects |-> IF s = "a" THEN <<1, 3>> ELSE <<2>>]

NextCodec ==
    \/ \E t \in CacheThreads :
        \/ \E id \in CodecIds : GetSchema(t, id)
        \/ GetSchemaOk(t)
        \/ \E subject \in Subjects : GetLatestSchema(t, subject)
        \/ \E subject \in Subjects, v \in 1..MaxVersions :
              GetSchemaByVersion(t, subject, v)
        \/ GetVersionOk(t)
        \/ ResolveAuth(t)
        \/ Acquire(t)
        \/ HttpFail(t)
        \/ Return(t)
    \/ \E value \in BOOLEAN : CodecCreationEnabled(value)

SpecCodec == InitCodec /\ [][NextCodec]_vars

SpecCacheFirst == InitCache("first") /\ [][NextCache]_vars
SpecCacheLatest == InitCache("latest") /\ [][NextCache]_vars
SpecCacheReset == InitCache("reset") /\ [][NextCache]_vars
SpecCacheToggle == InitCache("toggle") /\ [][NextCache]_vars

\* ------------------------------------------------------------------ claims
\* Requests inside httpClient.Do: dispatched to the backend, not yet completed.
InFlight == {t \in Threads : pc[t] = "inflight"}
\* Requests blocked in sem.Acquire.
Waiting == {t \in Threads : pc[t] = "acquire"}

\* C1: for every gate capacity, the number of HTTP calls in flight at the
\* backend never exceeds the capacity, however many operations are issued.
C1_ConcurrencyBound == Cardinality(InFlight) <= semSize

\* C1's case: capacity 2, both units in use and a third request kept waiting.
C1_Witness ==
    /\ semSize = 2
    /\ Cardinality(InFlight) = 2
    /\ Waiting /= {}

\* C3: an operation whose context is cancelled while it waits for a gate
\* unit, all units being held by other requests, can return at once with a
\* cancellation error, without a unit and without dispatching the call.
C3_CancelledWaiterReturns ==
    \A t \in Threads :
        (pc[t] = "acquire" /\ ctxCancelled[t] /\ semHeld = semSize)
            => ENABLED (/\ Next
                        /\ pc'[t] = "done"
                        /\ result'[t] = Err("canceled")
                        /\ semHeld' = semHeld
                        /\ reqs'[t] = reqs[t])

\* C4: the units held are exactly the requests between acquisition and
\* return, on every exit path; with no operation in progress none is held.
C4_SlotsReleased ==
    /\ semHeld = Cardinality(InFlight)
    /\ (\A t \in Threads : pc[t] \in {"idle", "done"}) => semHeld = 0

\* C4's case: requests have left httpRequest by a 2xx response, by a non-2xx
\* response and by cancellation, and nothing is in progress any more.
C4_Witness ==
    /\ \A t \in Threads : pc[t] = "done"
    /\ {"nil", "status", "canceled"} \subseteq {result[t].err : t \in Threads}

\* A step in which the request of thread t has its credentials block done:
\* the header is resolved and the request goes on to the gate.
Resolves(t) == pc[t] \in {"auth", "token"} /\ pc'[t] = "acquire"

\* The header a configured form leads to.
HeaderAsked(a) ==
    IF a.form = "basic"
    THEN [form |-> "basic", username |-> a.username, password |-> a.password]
    ELSE IF a.form = "bearer" THEN [form |-> "bearer", provider |-> a.provider]
    ELSE NoHeader

\* The slot is empty, or holds one form only.
OneForm ==
    \/ credentials = NoCredentials
    \/ /\ credentials.username /= ""
       /\ credentials.password /= ""
       /\ credentials.bearerToken = NoToken
    \/ /\ credentials.bearerToken /= NoToken
       /\ credentials.username = ""
       /\ credentials.password = ""

\* C9: the credential slot is empty, or a non-empty username and password
\* without a token provider, or a token provider with empty username and
\* password; and a request issued after SetBearerToken(provider), provider
\* not nil, replaced basic credentials gets the Bearer header, not Basic
\* auth.
C9_ExclusiveCredentials ==
    /\ []OneForm
    /\ [][\A t \in Threads :
            (Resolves(t) /\ lastEffective.form = "bearer")
                => header'[t] = BearerHeader(lastEffective.provider)]_vars

\* C9's case: one request still carries the Basic header it resolved under
\* SetCredentials(u, p); SetBearerToken(provider) came after it, and the
\* request resolved since carries the Bearer header.
C9_Witness ==
    \E t1, t2 \in Threads :
        /\ pc[t1] = "inflight" /\ header[t1].form = "basic"
        /\ pc[t2] = "acquire" /\ header[t2].form = "bearer"
        /\ lastSet = AskedBearer("tp")
        /\ credentials /= NoCredentials
        /\ credentials.bearerToken = "tp"

\* C10 as stated: the header a request gets is the one asked for by the most
\* recent set* call, whatever the arguments of that call.
C10_MostRecentCallWins ==
    [][\A t \in Threads : Resolves(t) => header'[t] = HeaderAsked(lastSet)]_vars

\* C10 amended: the header a request gets is the one asked for by the most
\* recent set* call with usable arguments (a non-empty username and a
\* non-empty password, or a non-nil provider); other set* calls change nothing.
C10_MostRecentEffectiveCallWins ==
    [][\A t \in Threads :
         Resolves(t) => header'[t] = HeaderAsked(lastEffective)]_vars

\* C10's case: a token provider was set and used, SetCredentials(u, p)
\* replaced it, a set* call with unusable arguments came last, and the
\* request resolved after all three carries the Basic header.
C10_Witness ==
    \E t1, t2 \in Threads :
        /\ pc[t1] = "inflight" /\ header[t1].form = "bearer"
        /\ pc[t2] = "acquire" /\ header[t2] = HeaderAsked(lastEffective)
        /\ lastEffective.form = "basic"
        /\ lastSet /= lastEffective
        /\ credentials.bearerToken = NoToken

\* Operations of the cache specifications that have returned.
Returned(ops) == {t \in CacheThreads : pc[t] = "done" /\ call[t].op \in ops}

\* The one request GetSchema(id) sends, and the one getVersion sends.
FetchById(id) == <<Req("GET", "schemaByID", "", Itoa(id), "", NoBody)>>
FetchByVersion(subject, version) ==
    <<Req("GET", "subjectByVersion", subject, version, "", NoBody)>>

\* C2 as stated, for the calls after the first: with caching enabled and no
\* ResetCache since the first successful GetSchema(id), a GetSchema(id) sends
\* no request and returns a schema equal to that first result.
C2_CacheIdempotence ==
    \A t \in Returned({"GetSchema"}) :
        (checked[t].enabled /\ checked[t].first /= Nil)
            => /\ reqs[t] = <<>>
               /\ result[t] = Ok(checked[t].first)

\* C5: with caching enabled and cacheLatest off, every GetLatestSchema(subject)
\* sends the request for /subjects/{subject}/versions/latest, also when one
\* was answered before; with cacheLatest on, a GetLatestSchema(subject) that
\* finds no entry sends that request, and the one after an answered
\* GetLatestSchema(subject) sends none.
C5_LatestIsVolatile ==
    \A t \in Returned({"GetLatestSchema"}) :
        LET fetch == FetchByVersion(call[t].subject, "latest") IN
        /\ (checked[t].enabled /\ ~checked[t].latest) => reqs[t] = fetch
        /\ (checked[t].enabled /\ checked[t].latest /\ checked[t].present = Nil)
               => reqs[t] = fetch
        /\ (checked[t].enabled /\ checked[t].latest /\ checked[t].again)
               => reqs[t] = <<>> /\ result[t].ok

\* C5's case: the second of two GetLatestSchema(subject) calls under
\* cacheLatest has returned from the cache, the registry holding a newer
\* version by now.
C5_Witness ==
    \E t \in Returned({"GetLatestSchema"}) :
        /\ checked[t].enabled /\ checked[t].latest /\ checked[t].again
        /\ reqs[t] = <<>>
        /\ result[t].schema.version < Len(registry[call[t].subject])

\* C6: once ResetCache has run, a GetSchema(id) and a
\* GetSchemaByVersion(subject, v) whose entry was in the maps before it, and
\* has not been fetched again since, send their request to the backend.
C6_ResetForcesFetch ==
    /\ \A t \in Returned({"GetSchema"}) :
           checked[t].stale => reqs[t] = FetchById(call[t].id)
    /\ \A t \in Returned({"GetSchemaByVersion"}) :
           checked[t].stale
               => reqs[t] = FetchByVersion(call[t].subject, call[t].version)

\* C6's case: both maps held entries when ResetCache ran; the next
\* GetSchema(id) has fetched its schema, and an entry of the subject map is
\* still to be fetched again.
C6_Witness ==
    \E t \in Returned({"GetSchema"}) :
        /\ checked[t].stale
        /\ checked[t].enabled
        /\ result[t].ok
        /\ \E subject \in CacheSubjects, v \in 1..MaxVersions :
              cacheKey(subject, Itoa(v)) \in hist.staleKeys

\* C7: a GetSchema(id) that finds caching disabled sends its request,
\* whether or not the id map holds an entry for id.
C7_CacheBypass ==
    \A t \in Returned({"GetSchema"}) :
        ~checked[t].enabled => reqs[t] = FetchById(call[t].id)

\* C7's case: caching is disabled, the id map holds an entry for id, and
\* GetSchema(id) has fetched the schema all the same.
C7_Witness ==
    \E t \in Returned({"GetSchema"}) :
        /\ ~checked[t].enabled
        /\ checked[t].present /= Nil
        /\ result[t].ok

\* C8: while caching is disabled the two maps are what they were when
\* CachingEnabled(false) was called (or empty, after a ResetCache), whatever
\* operations run meanwhile; and once caching is enabled again, a lookup of
\* an entry that was there before the disable is answered with that entry
\* and without a request.
C8_DisableKeepsEntries ==
    /\ ~cachingEnabled
          => /\ hist.atDisable.taken
             /\ idSchemaCache = hist.atDisable.ids
             /\ subjectSchemaCache = hist.atDisable.keys
    /\ \A t \in Returned({"GetSchema", "GetSchemaByVersion"}) :
          (checked[t].enabled /\ checked[t].kept)
              => /\ reqs[t] = <<>>
                 /\ checked[t].present /= Nil
                 /\ result[t] = Ok(checked[t].present)

\* C8's case: the maps held entries when caching was disabled, an operation
\* got its answer while it was, and on the other side of CachingEnabled(true)
\* a GetSchemaByVersion has been served an entry from before the disable.
C8_Witness ==
    \E t \in Returned({"GetSchemaByVersion"}) :
        /\ checked[t].enabled
        /\ checked[t].kept
        /\ hist.worked
        /\ reqs[t] = <<>>

\* Operations that take a schema type.
TypedOps == {"CreateSchema", "LookupSchema", "IsSchemaCompatible"}

\* C11 as stated: CreateSchema, LookupSchema and IsSchemaCompatible called
\* with a schema type outside {Avro, Json, Protobuf} have returned a
\* validation error without sending any request.
C11_InvalidTypeRejected ==
    \A t \in CacheThreads :
        (call[t].op \in TypedOps /\ call[t].schemaType \notin SchemaTypes)
            => /\ pc[t] = "done"
               /\ reqs[t] = <<>>
               /\ result[t] = Err("invalid schema type")

\* The errors createError can make of the answers with a failing status.
StatusErrors ==
    {IF resp.json
     THEN [type |-> "Error", Code |-> resp.error_code, Message |-> resp.message]
     ELSE [type |-> "errorString", Code |-> 0, Message |-> resp.Status] :
        resp \in {r \in Responses : r.StatusCode \notin 200..299}}

\* A step that puts an entry into one of the cache maps.
Inserts ==
    \/ \E id \in DOMAIN idSchemaCache' :
          Lookup(idSchemaCache, id) /= idSchemaCache'[id]
    \/ \E key \in DOMAIN subjectSchemaCache' :
          Lookup(subjectSchemaCache, key) /= subjectSchemaCache'[key]

\* C12: an operation that got an answer with a status outside 200..299 has
\* failed: its error is the Error decoded from the body (error_code and
\* message) or the status line, it returns no value with the error, and it
\* has put nothing into the caches: the failing step ends the operation and
\* changes no map, and entries are only ever inserted by an operation on its
\* way to a successful return.
C12_ErrorPropagation ==
    /\ [](\A t \in CacheThreads :
            result[t].err = "status"
                => /\ pc[t] = "done"
                   /\ ~result[t].ok
                   /\ result[t].schema = Nil
                   /\ result[t].value = NoValue
                   /\ result[t].error \in StatusErrors)
    /\ [](\A t \in CacheThreads : pc[t] = "store" => result[t].ok)
    /\ [][/\ \A t \in CacheThreads :
              (result[t].err /= "status" /\ result'[t].err = "status")
                  => UNCHANGED <<idSchemaCache, subjectSchemaCache>>
          /\ Inserts => \E t \in CacheThreads :
                           pc'[t] \in {"store", "done"} /\ result'[t].ok]_vars

\* C12's case: CreateSchema has failed with the registry's 42201 on its
\* second request, the POST having succeeded.
C12_Witness ==
    \E t \in Returned({"CreateSchema"}) :
        /\ Len(reqs[t]) = 2
        /\ result[t].err = "status"
        /\ result[t].error =
              [type |-> "Error", Code |-> 42201, Message |-> "Invalid schema"]

\* C13: an operation whose ObtainToken call failed has returned the
\* provider's error without a request being sent for it and without taking
\* a unit of the gate: the units held are those of the requests in flight.
C13_TokenFailureAborts ==
    /\ \A t \in Threads :
          result[t].err = "token"
              => /\ pc[t] = "done"
                 /\ ~result[t].ok
                 /\ reqs[t] = <<>>
    /\ semHeld = Cardinality(InFlight)

\* C13's case: with a token provider configured, an operation has failed on
\* ObtainToken while another request was in flight.
C13_Witness ==
    \E t1, t2 \in Threads :
        /\ result[t1].err = "token"
        /\ pc[t2] = "inflight"
        /\ credentials /= NoCredentials
        /\ credentials.bearerToken = "tp"
        /\ semHeld = 1

\* The two delete operations, and the DELETE each of them sends first.
DeleteOps == {"DeleteSubject", "DeleteSubjectByVersion"}
FirstDelete(c) ==
    IF c.op = "DeleteSubject"
    THEN Req("DELETE", "subject", c.subject, "", "", NoBody)
    ELSE Req("DELETE", "subjectByVersion", c.subject, Itoa(c.version), "", NoBody)

\* C14: a delete sends its plain DELETE first; the DELETE with
\* ?permanent=true is set up only by a permanent delete, in a step in which
\* the plain DELETE, the only request so far, is answered without error.  A
\* delete whose plain DELETE failed has returned that error with one request
\* sent, a delete with permanent=false never sends more than one request,
\* and the successful deletes have sent one DELETE, or the two in order.
C14_PermanentDeleteSequence ==
    /\ [](\A t \in CacheThreads :
            call[t].op \in DeleteOps
                => LET first == FirstDelete(call[t])
                       second == [first EXCEPT !.query = Permanent] IN
                   /\ reqs[t] \in {<<>>, <<first>>, <<first, second>>}
                   /\ request[t] \in {first, second}
                   /\ ~call[t].permanent => Len(reqs[t]) <= 1
                   /\ (pc[t] = "done" /\ request[t] = first /\ call[t].permanent)
                         => ~result[t].ok /\ reqs[t] = <<first>>
                   /\ (pc[t] = "done" /\ result[t].ok)
                         => reqs[t] = IF call[t].permanent
                                      THEN <<first, second>> ELSE <<first>>)
    /\ [][\A t \in CacheThreads :
             (call[t].op \in DeleteOps /\ request'[t] /= request[t]
                  /\ pc'[t] /= "idle")
                 => /\ call[t].permanent
                    /\ pc[t] = "inflight"
                    /\ reqs[t] = <<FirstDelete(call[t])>>
                    /\ request'[t] = [request[t] EXCEPT !.query = Permanent]
                    /\ result'[t] = NoResult
                    /\ pc'[t] = "auth"]_vars

\* C14's case: a permanent DeleteSubjectByVersion has succeeded with its two
\* DELETEs, the second one with ?permanent=true.
C14_Witness ==
    \E t \in Returned({"DeleteSubjectByVersion"}) :
        /\ call[t].permanent
        /\ result[t].ok
        /\ Len(reqs[t]) = 2
        /\ reqs[t][1].query = ""
        /\ reqs[t][2].query = Permanent

\* The most requests an operation sends.
MaxRequests(c) ==
    IF c.op = "CreateSchema" \/ (c.op \in DeleteOps /\ c.permanent) THEN 2 ELSE 1

\* C15: no operation sends more requests than one, CreateSchema and the
\* permanent deletes no more than two; a request that fails ends its
\* operation in the same step, with the error, and an operation that has
\* ended sends nothing more.
C15_NoRetry ==
    /\ [](\A t \in CacheThreads :
            /\ Len(reqs[t]) <= MaxRequests(call[t])
            /\ result[t].err \notin {"none", "nil"} => pc[t] = "done")
    /\ [][\A t \in CacheThreads :
             /\ (pc[t] = "inflight" /\ pc'[t] \in {"auth", "acquire", "inflight"}
                    /\ request'[t] = request[t])
                   => UNCHANGED <<pc, reqs>>
             /\ pc[t] = "done" => (reqs'[t] = reqs[t] \/ pc'[t] = "idle")]_vars

\* C15's case: a CreateSchema whose POST failed has returned with that one
\* request sent.
C15_Witness ==
    \E t \in Returned({"CreateSchema"}) :
        /\ result[t].err \in {"transport", "status"}
        /\ Len(reqs[t]) = 1
        /\ reqs[t][1].method = "POST"

\* The POST of CreateSchema(subject, schema, schemaType).
PostVersion(c) ==
    Req("POST", "subjectVersions", c.subject, "", "", Payload(c.schema, c.schemaType))

\* C16 as stated: a successful CreateSchema has sent its POST and then the
\* GET of /schemas/ids/{id} for the id the POST returned; and with caching
\* enabled the step that ends it leaves the returned schema under its id in
\* the id map and under (subject, its version) in the subject map, where a
\* GetSchema(id) finds it.
C16_CreateSchemaCaches ==
    /\ [](\A t \in Returned({"CreateSchema"}) :
            result[t].ok
                => reqs[t] = <<PostVersion(call[t])>> \o FetchById(postID[t]))
    /\ [][\A t \in CacheThreads :
             (pc[t] = "store" /\ pc'[t] = "done" /\ cachingEnabled)
                 => LET schema == result'[t].schema
                        key == cacheKey(call[t].subject, Itoa(schema.version)) IN
                    /\ schema.id = postID[t]
                    /\ Lookup(idSchemaCache', schema.id) = schema
                    /\ Lookup(subjectSchemaCache', key) = schema
                    /\ IdCacheHit(postID[t])']_vars

\* The characters of a text that `\r?\n` -> " " leaves out: a \r with a \n
\* right after it.  All others stay, in their order, a \n as a space.
Dropped(text) ==
    {i \in 1..Len(text) : text[i] = "\r" /\ i < Len(text) /\ text[i + 1] = "\n"}
Kept(text) == (1..Len(text)) \ Dropped(text)
KeptAt(text, k) ==
    CHOOSE i \in Kept(text) : Cardinality({j \in Kept(text) : j <= i}) = k
Spaced(text) ==
    [k \in 1..Cardinality(Kept(text)) |->
        IF text[KeptAt(text, k)] = "\n" THEN " " ELSE text[KeptAt(text, k)]]

\* C17: the text in the request of a CreateSchema or LookupSchema is, for
\* Avro and Json, the input with each \r\n and each other \n turned into one
\* space and every other character (a \r without a \n after it too) left
\* where it was; for Protobuf it is the input.
C17_LineEndingsNormalized ==
    \A t \in CacheThreads :
        (call[t].op \in {"CreateSchema", "LookupSchema"}
             /\ call[t].schemaType \in SchemaTypes)
            => LET sent == request[t].body.schema IN
               /\ request[t].method = "POST"
               /\ reqs[t] \in {<<>>, <<request[t]>>}
               /\ sent = IF call[t].schemaType = "PROTOBUF"
                         THEN call[t].schema
                         ELSE Spaced(call[t].schema)
               /\ call[t].schemaType /= "PROTOBUF"
                     => /\ \A i \in 1..Len(sent) : sent[i] /= "\n"
                        /\ Len(sent) = Len(call[t].schema)
                                           - Cardinality(Dropped(call[t].schema))

\* C17's case: an Avro text with a \r on its own, a \r\n and a \n has been
\* sent by CreateSchema as the \r and two spaces.
C17_Witness ==
    \E t \in CacheThreads :
        /\ call[t].op = "CreateSchema"
        /\ call[t].schemaType = "AVRO"
        /\ call[t].schema = <<"\r", "\r", "\n", "\n">>
        /\ reqs[t] /= <<>>
        /\ reqs[t][1].body.schema = <<"\r", " ", " ">>

\* The operations without a cache lookup that C18 names, and their request.
UncachedOps == {"GetSchemaVersions", "IsSchemaCompatible"}
UncachedRequest(c) ==
    IF c.op = "GetSchemaVersions"
    THEN Req("GET", "subjectVersions", c.subject, "", "", NoBody)
    ELSE Req("POST", "compatibility", c.subject, c.version, "",
             CompatibilityPayload(c.schema, c.schemaType))

\* C18: a GetSchemaVersions or IsSchemaCompatible call is on its way through
\* httpRequest with its request from its first step on, whatever the maps
\* hold and the toggles say, and has sent that one request when it returns;
\* and no step of such a call changes the id map or the subject map.
C18_NeverFromCache ==
    /\ [](\A t \in CacheThreads :
            call[t].op \in UncachedOps
                => /\ request[t] = UncachedRequest(call[t])
                   /\ pc[t] \in {"auth", "acquire"} => reqs[t] = <<>>
                   /\ pc[t] \in {"inflight", "done"} => reqs[t] = <<request[t]>>)
    /\ [][\A t \in CacheThreads :
             ((call[t].op \in UncachedOps \/ call'[t].op \in UncachedOps)
                  /\ pc'[t] /= pc[t])
                 => UNCHANGED <<idSchemaCache, subjectSchemaCache>>]_vars

\* C18's case: with caching and cacheLatest on and entries in both maps, a
\* GetSchemaVersions has been answered by the backend.
C18_Witness ==
    \E t \in Returned({"GetSchemaVersions"}) :
        /\ cachingEnabled /\ cacheLatest
        /\ DOMAIN idSchemaCache /= {}
        /\ DOMAIN subjectSchemaCache /= {}
        /\ result[t].ok
        /\ Len(reqs[t]) = 1

\* C19: once a lookup has been made in the id map after a ResetCache had
\* assigned it, no lookup is made in the subject map while that ResetCache
\* has not assigned it yet and entries are still in it.
C19_ResetAtomic == ~hist.atomic.torn

\* C19's case: a ResetCache emptied both maps; the caller missed in the id
\* map after that ResetCache had assigned it, and then missed in the subject
\* map on a key, and has fetched the schema again.
C19_Witness ==
    \E t \in Returned({"GetSchemaByVersion"}) :
        /\ hist.atomic.wiped
        /\ hist.atomic.sawBoth
        /\ checked[t].present = Nil
        /\ Len(reqs[t]) = 1
        /\ result[t].ok

\* Requests inside bearerToken.ObtainToken, and requests whose Authorization
\* header is resolved and that wait for a unit of the gate.
InToken == {t \in Threads : pc[t] = "token"}

\* C20 as stated: a request resolves its Authorization header holding a
\* unit of the gate, so the requests at or past that point are no more than
\* the units taken, and the ObtainToken calls in progress at any moment are
\* no more than the gate's capacity.
C20_TokenUnderGate ==
    /\ Cardinality(InToken) <= semSize
    /\ Cardinality(InToken \cup Waiting \cup InFlight) <= semHeld

\* C21: a step that takes a key out of the id map or out of the subject map
\* is a ResetCache: no goroutine moves in it, no toggle changes, and both
\* maps are empty after it.  Every other step, the deletes and the toggles
\* included, leaves each map with the keys it had, and maybe more.
C21_KeysOnlyGrow ==
    [][(DOMAIN idSchemaCache \subseteq DOMAIN idSchemaCache'
           /\ DOMAIN subjectSchemaCache \subseteq DOMAIN subjectSchemaCache')
       \/ (/\ idSchemaCache' = EmptyMap
           /\ subjectSchemaCache' = EmptyMap
           /\ UNCHANGED <<semVars, flagVars, authVars, registry, threadVars>>)]_vars

\* C21's case: a permanent DeleteSubject has succeeded with caching enabled,
\* and the entries of its subject are in the subject map, and the id map
\* holds entries, as before.
C21_Witness ==
    \E t \in Returned({"DeleteSubject"}) :
        /\ call[t].permanent
        /\ result[t].ok
        /\ cachingEnabled
        /\ cacheKey(call[t].subject, "1") \in DOMAIN subjectSchemaCache
        /\ DOMAIN idSchemaCache /= {}

\* C22 as stated: the read locks held on credsLock are those of the requests
\* inside ObtainToken, and none once these have returned; so a setter that
\* waits for the lock while no request is inside ObtainToken gets it, and no
\* request is kept from its read lock unless a setter is on its way.
C22_CredsLockReleased ==
    /\ credsRLocks = Cardinality(InToken)
    /\ \A t \in Threads :
          (pc[t] = "wlock" /\ InToken = {}) => ENABLED SetterLocked(t)

\* C23 as stated: an entry of the subject map under the key of a subject and
\* a positive version is the schema the registry holds as that version of
\* that subject: the version exists, and the entry has its id and its number.
C23_SubjectCacheIsTrue ==
    \A s \in Subjects, v \in 1..(MaxVersions + 1) :
        LET entry == Lookup(subjectSchemaCache, cacheKey(s, Itoa(v))) IN
        entry /= Nil
            => /\ v <= Len(registry[s])
               /\ entry.id = registry[s][v]
               /\ entry.version = v

\* The (subject, version token) pairs the calls of SpecKeys look up.
KeyPairs ==
    KeySubjects \X ({"latest"} \cup {Itoa(v) : v \in KeyVersions})

\* C24 as stated: the key of the lookup a getVersion call makes is the key of
\* no other (subject, version token), and a call answered from the subject
\* map has got the schema the registry holds as that version of that subject.
C24_CacheKeyInjective ==
    \A t \in CacheThreads :
        call[t].op \in {"GetSchemaByVersion", "GetLatestSchema"}
            => /\ \A p \in KeyPairs :
                     cacheKey(p[1], p[2]) = cacheKey(call[t].subject, call[t].version)
                         => p = <<call[t].subject, call[t].version>>
               /\ (pc[t] = "done" /\ result[t].ok /\ reqs[t] = <<>>)
                     => /\ ResolveVersion(call[t].subject, call[t].version) /= 0
                        /\ result[t].schema.id =
                              registry[call[t].subject]
                                      [ResolveVersion(call[t].subject, call[t].version)]

\* The type of the schema a GetSchema or getVersion call asks the registry for.
FetchedType(c) ==
    IF c.op = "GetSchema" THEN TypeOf(c.id)
    ELSE TypeOf(registry[c.subject][ResolveVersion(c.subject, c.version)])

\* C25 as stated: no GetSchema, GetSchemaByVersion or GetLatestSchema for a
\* Json or Protobuf schema fails on the codec: an answered fetch of such a
\* schema has succeeded, whether codec creation is enabled or not.
C25_CodecOnlyForAvro ==
    \A t \in CacheThreads :
        (call[t].op \in {"GetSchema", "GetSchemaByVersion", "GetLatestSchema"}
             /\ result[t].err = "codec")
            => FetchedType(call[t]) = "AVRO"

=============================================================================
